---- MODULE Spec2Model ----
(***************************************************************************)
(* Shared Expense Splitter: backend.py (generate_unique_name,              *)
(* compute_fair_shares, compute_settlements) and the session handlers of   *)
(* streamlit_frontend.py.                                                  *)
(*                                                                         *)
(* Text is a sequence of one-character strings.  Money is counted in whole *)
(* cents (round(x, 2) is rounding to a whole number of cents); a quotient  *)
(* by total_weight is kept exact as a numerator over total_weight.         *)
(***************************************************************************)
EXTENDS Integers, Sequences, FiniteSets, TLC

VARIABLES pc, participants, name, existing_names, result, results,
          debtors, creditors, i, j, transactions, shares

vars == <<pc, participants, name, existing_names, result, results,
          debtors, creditors, i, j, transactions, shares>>

\* ------------------------------------------------------------------ text
SP == " "
NL == "\n"
LP == "("
RP == ")"

Digits == <<"0", "1", "2", "3", "4", "5", "6", "7", "8", "9">>

\* str.strip() removes white space; of the characters used here: blank, line feed
IsSpace(c) == c \in {SP, NL}

\* \d
IsDigit(c) == \E d \in 1..10 : Digits[d] = c

DigitVal(c) == (CHOOSE d \in 1..10 : Digits[d] = c) - 1

\* re.IGNORECASE compares letters by their case-folded form
Lower(c) == CASE c = "A" -> "a" [] c = "B" -> "b" [] OTHER -> c

LowerAll(s) == [x \in 1..Len(s) |-> Lower(s[x])]

\* '.' without re.DOTALL: any character but a line feed
DotChar(c) == c # NL

Min(S) == CHOOSE x \in S : \A y \in S : x <= y

Max(S) == CHOOSE x \in S : \A y \in S : x >= y

\* str.strip()
strip(s) ==
    LET keep == {x \in 1..Len(s) : ~IsSpace(s[x])}
    IN  IF keep = {} THEN <<>> ELSE SubSeq(s, Min(keep), Max(keep))

\* int(text) of a run of decimal digits
RECURSIVE int(_)
int(ds) == IF ds = <<>> THEN 0
           ELSE 10 * int(SubSeq(ds, 1, Len(ds) - 1)) + DigitVal(ds[Len(ds)])

\* the decimal text an f-string gives a non-negative int
RECURSIVE str(_)
str(n) == IF n < 10 THEN <<Digits[n + 1]>>
          ELSE str(n \div 10) \o <<Digits[(n % 10) + 1]>>

\* '$' without re.MULTILINE: at the end, or before a line feed that ends the text
AtEnd(s, p) == p = Len(s) \/ (p = Len(s) - 1 /\ s[Len(s)] = NL)

\* where ' \((\d+)\)' can end when it starts after position p
SuffixEnds(s, p) ==
    {q \in (p + 4)..Len(s) :
        /\ s[p + 1] = SP
        /\ s[p + 2] = LP
        /\ s[q] = RP
        /\ \A x \in (p + 3)..(q - 1) : IsDigit(s[x])}

\* re.match(r"^(.*?)(?: \((\d+)\))?$", name): the lengths group 1 can take
NameMatch(s) ==
    {p \in 0..Len(s) :
        /\ \A x \in 1..p : DotChar(s[x])
        /\ \/ \E q \in SuffixEnds(s, p) : AtEnd(s, q)
           \/ AtEnd(s, p)}

\* base_name with group 1 left untrimmed (the .strip() after match.group(1) dropped)
base_name_untrimmed(stripped) ==
    IF NameMatch(stripped) = {} THEN stripped
    ELSE SubSeq(stripped, 1, Min(NameMatch(stripped)))

\* base_name = match.group(1).strip() if match else name; '.*?' is lazy, so
\* group 1 is the shortest prefix that lets the rest match
base_name(stripped) ==
    IF NameMatch(stripped) = {} THEN stripped
    ELSE strip(SubSeq(stripped, 1, Min(NameMatch(stripped))))

\* pattern.match(existing) for
\* re.compile(rf"^{re.escape(base_name)}(?: \((\d+)\))?$", re.IGNORECASE);
\* group1 is <<>> when the optional group took no part
pattern_match(base, e) ==
    LET n == Len(base)
        head == /\ Len(e) >= n
                /\ \A x \in 1..n : Lower(e[x]) = Lower(base[x])
        ends == IF head THEN {q \in SuffixEnds(e, n) : AtEnd(e, q)} ELSE {}
    IN  IF ends # {}
        THEN [matched |-> TRUE, group1 |-> SubSeq(e, n + 3, Min(ends) - 1)]
        ELSE [matched |-> head /\ AtEnd(e, n), group1 |-> <<>>]

\* scan_step with a suffixed match (k) raising the floor to k, not k + 1
scan_step_no_increment(base, existing, max_suffix) ==
    LET m == pattern_match(base, strip(existing))
    IN  IF m.matched
        THEN IF m.group1 # <<>>
             THEN Max({max_suffix, int(m.group1)})
             ELSE Max({max_suffix, 2})
        ELSE max_suffix

\* one pass of the body of 'for existing in existing_names'
scan_step(base, existing, max_suffix) ==
    LET m == pattern_match(base, strip(existing))
    IN  IF m.matched
        THEN IF m.group1 # <<>>
             THEN Max({max_suffix, int(m.group1) + 1})
             ELSE Max({max_suffix, 2})
        ELSE max_suffix

\* the for loop, from max_suffix = 1
RECURSIVE scan(_, _, _, _)
scan(base, names, k, max_suffix) ==
    IF k > Len(names) THEN max_suffix
    ELSE scan(base, names, k + 1, scan_step(base, names[k], max_suffix))

generate_unique_name(nm, names) ==
    LET base == base_name(strip(nm))
        max_suffix == scan(base, names, 1, 1)
    IN  IF max_suffix = 1 THEN base
        ELSE base \o <<SP, LP>> \o str(max_suffix) \o <<RP>>

\* ------------------------------------------- generate_unique_name, called once
MaxExisting == 2

Idle == <<>>

\* surrounding white space of a typed name: none, or a blank before and a blank
\* and a line feed after
Pads == {<< <<>>, <<>> >>, << <<SP>>, <<SP, NL>> >>}

Cores == {<<>>, <<"a">>, <<"A">>, <<"a", "B">>, <<"a", NL, "b">>, <<LP, "2", RP>>}

Tails == {<<>>,
          <<SP, LP, "0", RP>>,
          <<SP, LP, "1", RP>>,
          <<SP, LP, "2", RP>>,
          <<SP, LP, "0", "2", RP>>,
          <<SP, LP, "1", "0", RP>>,
          <<SP, SP, LP, "2", RP>>,
          <<SP, LP, "2", RP, SP, LP, "3", RP>>,
          <<LP, "2", RP>>,
          <<SP, LP, RP>>,
          <<SP, LP, "a", RP>>}

Candidates == {p[1] \o c \o t \o p[2] : p \in Pads, c \in Cores, t \in Tails}

ExistingPool == {<<>>,
                 <<"a">>,
                 <<SP, "A", SP>>,
                 <<"a", "b">>,
                 <<"a", SP, LP, "0", RP>>,
                 <<"A", SP, LP, "2", RP>>,
                 <<"a", SP, LP, "0", "3", RP, NL>>,
                 <<"a", SP, LP, "1", "0", RP>>,
                 <<LP, "2", RP>>,
                 <<SP, LP, "2", RP>>,
                 <<"a", NL, "b">>,
                 <<"a", SP, LP, "2", RP, SP, LP, "3", RP>>}

RECURSIVE ListsUpTo(_, _)
ListsUpTo(S, n) ==
    IF n = 0 THEN {<<>>}
    ELSE LET shorter == ListsUpTo(S, n - 1)
         IN  shorter \cup {Append(l, x) : l \in {m \in shorter : Len(m) = n - 1}, x \in S}

InitName ==
    /\ pc = "gen_call"
    /\ name \in Candidates
    /\ existing_names \in ListsUpTo(ExistingPool, MaxExisting)
    /\ result = Idle
    /\ participants = <<>> /\ results = <<>> /\ debtors = <<>> /\ creditors = <<>>
    /\ i = 0 /\ j = 0 /\ transactions = <<>> /\ shares = Idle

GenerateUniqueName ==
    /\ pc = "gen_call"
    /\ result' = generate_unique_name(name, existing_names)
    /\ pc' = "gen_done"
    /\ UNCHANGED <<participants, name, existing_names, results, debtors, creditors,
                   i, j, transactions, shares>>

NextName == GenerateUniqueName

SpecName == InitName /\ [][NextName]_vars

\* ------------------------------- generate_unique_name against a growing list
MaxCalls == 3

\* what is typed for one name: its letter cases, with and without white space
MonoInputs == {<<>>, <<SP>>, <<SP, NL>>,
               <<"a">>, <<"A">>, <<SP, "a", SP>>,
               <<"a", "b">>, <<"A", "b">>, <<"a", "B">>, <<SP, "A", "B">>,
               <<LP, "2", RP>>, <<SP, LP, "2", RP>>}

InitMono ==
    /\ pc = "mono"
    /\ name \in MonoInputs
    /\ existing_names = <<>>
    /\ results = <<>>
    /\ result = Idle
    /\ participants = <<>> /\ debtors = <<>> /\ creditors = <<>>
    /\ i = 0 /\ j = 0 /\ transactions = <<>> /\ shares = Idle

\* recorded_names = [...]; unique_name = generate_unique_name(name_input,
\* recorded_names); the result joins the list before the next call
CallAgain ==
    /\ pc = "mono"
    /\ Len(results) < MaxCalls
    /\ \E typed \in MonoInputs :
          /\ LowerAll(strip(typed)) = LowerAll(strip(name))
          /\ name' = typed
          /\ result' = generate_unique_name(typed, existing_names)
    /\ existing_names' = Append(existing_names, result')
    /\ results' = Append(results, result')
    /\ UNCHANGED <<pc, participants, debtors, creditors, i, j, transactions, shares>>

NextMono == CallAgain

SpecMono == InitMono /\ [][NextMono]_vars

\* ------------------------------------------------- the session (the frontend)
MaxParticipants == 3

MaxRows == 4

MaxSuffix == 2

\* Participant(name, amount_spent, weight); the note takes no part in any decision
Participant(n, a, w) == [name |-> n, amount_spent |-> a, weight |-> w]

\* what is typed into the "Name" field of the form
AddNames == {<<>>, <<SP>>, <<"a">>, <<"A">>, <<LP, "2", RP>>}

\* what is typed into a name cell of the table
EditNames == {<<>>, <<"a">>, <<"A", SP>>}

SessionAmounts == {0, 3}

SessionWeights == {0, 1}

recorded_names(ps) == [k \in 1..Len(ps) |-> ps[k].name]

RECURSIVE Repeat(_, _)
Repeat(x, n) == IF n = 0 THEN <<>> ELSE <<x>> \o Repeat(x, n - 1)

\* the rows of editable_df: df_participants left-merged with df_fair on the name,
\* so a row comes once for every fair-share row of the same name
RECURSIVE merged_from(_, _)
merged_from(ps, k) ==
    IF k > Len(ps) THEN <<>>
    ELSE Repeat(ps[k], Cardinality({l \in 1..Len(ps) : ps[l].name = ps[k].name}))
         \o merged_from(ps, k + 1)

editor_rows(ps) == merged_from(ps, 1)

RECURSIVE sum_weight(_, _)
sum_weight(ps, k) == IF k > Len(ps) THEN 0 ELSE ps[k].weight + sum_weight(ps, k + 1)

total_weight(ps) == sum_weight(ps, 1)

\* the run gets past the table and the settlement table to the buttons below:
\* no write-back with its st.rerun(), no ZeroDivisionError in compute_settlements
reaches_buttons(ps) ==
    /\ ps # <<>>
    /\ editor_rows(ps) = ps
    /\ total_weight(ps) # 0

Init ==
    /\ pc = "session"
    /\ participants = <<>>
    /\ name = <<>> /\ existing_names = <<>> /\ result = Idle /\ results = <<>>
    /\ debtors = <<>> /\ creditors = <<>>
    /\ i = 0 /\ j = 0 /\ transactions = <<>> /\ shares = Idle

\* "Add Participant" submitted; the same run writes the table's rows back
AddParticipant ==
    /\ pc = "session"
    /\ Len(participants) < MaxParticipants
    /\ \E name_input \in AddNames, amount_input \in SessionAmounts, weight_input \in SessionWeights :
          /\ name_input # <<>>
          /\ scan(base_name(strip(name_input)), recorded_names(participants), 1, 1) <= MaxSuffix
          /\ LET unique_name == generate_unique_name(name_input, recorded_names(participants))
                 appended == Append(participants,
                                    Participant(unique_name, amount_input, weight_input))
             IN  /\ Len(editor_rows(appended)) <= MaxRows
                 /\ participants' = editor_rows(appended)
    /\ UNCHANGED <<pc, name, existing_names, result, results, debtors, creditors,
                   i, j, transactions, shares>>

\* a cell of the table edited: the rows go back into the session as they are
EditRow ==
    /\ pc = "session"
    /\ participants # <<>>
    /\ LET rows == editor_rows(participants)
       IN  \E k \in 1..Len(rows) :
              \E n \in EditNames \cup {rows[k].name},
                 a \in SessionAmounts \cup {rows[k].amount_spent},
                 w \in SessionWeights \cup {rows[k].weight} :
                    LET new_participants == [rows EXCEPT ![k] = Participant(n, a, w)]
                    IN  /\ Len(new_participants) <= MaxRows
                        /\ new_participants # participants
                        /\ participants' = new_participants
    /\ UNCHANGED <<pc, name, existing_names, result, results, debtors, creditors,
                   i, j, transactions, shares>>

\* a rerun with nothing edited, when the merge gave more rows than participants
Rerun ==
    /\ pc = "session"
    /\ participants # <<>>
    /\ editor_rows(participants) # participants
    /\ Len(editor_rows(participants)) <= MaxRows
    /\ participants' = editor_rows(participants)
    /\ UNCHANGED <<pc, name, existing_names, result, results, debtors, creditors,
                   i, j, transactions, shares>>

\* "Delete Selected"
DeleteSelected ==
    /\ pc = "session"
    /\ reaches_buttons(participants)
    /\ \E k \in 1..Len(participants) :
          LET selected == participants[k].name
              kept(p) == p.name # selected
          IN  participants' = SelectSeq(participants, kept)
    /\ UNCHANGED <<pc, name, existing_names, result, results, debtors, creditors,
                   i, j, transactions, shares>>

\* "Reset All"
ResetAll ==
    /\ pc = "session"
    /\ reaches_buttons(participants)
    /\ participants' = <<>>
    /\ UNCHANGED <<pc, name, existing_names, result, results, debtors, creditors,
                   i, j, transactions, shares>>

Next == AddParticipant \/ EditRow \/ Rerun \/ DeleteSelected \/ ResetAll

Spec == Init /\ [][Next]_vars

\* ------------------------------------------------------- compute_settlements
MaxSettle == 4

\* the i-th participant of a list is named by the i-th letter; in a list of two
\* or more the last may instead carry the first one's name
SettleNames == <<"a", "b", "c", "d", "e", "f">>

\* amounts spent, in cents (negative: borrowed)
SettleAmounts == {0 - 1, 0, 3}

\* weights, in units of the smallest weight entered
SettleWeights == {0, 1, 2}

\* The lists are taken in one order of their participants, by amount and then
\* by weight: the order of a list shows only in the order of the dict keys,
\* which decides between equal sort keys alone, and those fall either way below.
in_order(a, w, n) ==
    \A k \in 1..(n - 1) : a[k] < a[k + 1] \/ (a[k] = a[k + 1] /\ w[k] <= w[k + 1])

SettleLists ==
    UNION {
        {[k \in 1..n |-> Participant(<<SettleNames[IF t[3] /\ k = n THEN 1 ELSE k]>>,
                                     t[1][k], t[2][k])] :
            t \in {u \in [1..n -> SettleAmounts] \X [1..n -> SettleWeights]
                            \X (IF n >= 2 THEN BOOLEAN ELSE {FALSE}) :
                      in_order(u[1], u[2], n)}} :
        n \in 0..MaxSettle}

RECURSIVE sum_spent(_, _)
sum_spent(ps, k) == IF k > Len(ps) THEN 0 ELSE ps[k].amount_spent + sum_spent(ps, k + 1)

total_spendings(ps) == sum_spent(ps, 1)

\* round2 cutting the fraction of a cent off instead of rounding to the nearest
round2_truncating(num, den) == {num \div den}

\* round(x, 2) of x = num / den cents, den > 0: the nearest whole cent.  A value
\* halfway between two cents in exact arithmetic is a float just above or just
\* below the half (or the half itself, rounded to even), so either neighbour can
\* come out.
round2(num, den) ==
    LET q == num \div den
        r == num - q * den
    IN  IF 2 * r < den THEN {q}
        ELSE IF 2 * r > den THEN {q + 1}
        ELSE {q, q + 1}

\* the keys of a dict built from the participants, in insertion order
RECURSIVE dict_keys(_, _)
dict_keys(ps, k) ==
    IF k > Len(ps) THEN <<>>
    ELSE IF \E l \in 1..(k - 1) : ps[l].name = ps[k].name
         THEN dict_keys(ps, k + 1)
         ELSE <<ps[k].name>> \o dict_keys(ps, k + 1)

\* the participant whose entry a dict comprehension keeps for a name: the last
dict_entry(ps, n) == ps[Max({k \in 1..Len(ps) : ps[k].name = n})]

\* balances[n] = p.amount_spent - total_spendings * p.weight / total_weight, as
\* its exact numerator over total_weight (> 0 here)
balance(ps, n) ==
    LET p == dict_entry(ps, n)
    IN  p.amount_spent * total_weight(ps) - total_spendings(ps) * p.weight

\* The balances are floats: each differs from its exact value by an error far
\* below anything the inputs can tell apart, which shows only where exact values
\* tie.  A balance that is exactly 0 can come out as 0.0, as a dust debt or as a
\* dust credit; two magnitudes that tie exactly can compare either way.
\* the signs the float balances can have: b < 0, b == 0, b > 0
float_signs(ps) ==
    LET keys == dict_keys(ps, 1)
        names == {keys[k] : k \in 1..Len(keys)}
    IN  {sgn \in [names -> {0 - 1, 0, 1}] :
            \A n \in names :
                /\ balance(ps, n) < 0 => sgn[n] = 0 - 1
                /\ balance(ps, n) > 0 => sgn[n] = 1}

\* [(n, -b) for n, b in balances.items() if b < 0] for side = -1,
\* [(n, b) for n, b in balances.items() if b > 0] for side = 1;
\* a pair holds the name and the exact numerator of the magnitude
list_side(ps, sgn, side) ==
    LET keys == dict_keys(ps, 1)
        on_side(n) == sgn[n] = side
        names == SelectSeq(keys, on_side)
    IN  [k \in 1..Len(names) |-> <<names[k], side * balance(ps, names[k])>>]

insert_at(seq, pos, x) == SubSeq(seq, 1, pos) \o <<x>> \o SubSeq(seq, pos + 1, Len(seq))

\* sorted() left out: the pairs stay in dict order
unsorted_orders(pairs, k) == {SubSeq(pairs, 1, k)}

\* sorted(pairs, key=lambda x: x[1]) of the first k pairs: the orders that are
\* ascending in the exact magnitudes (pairs that tie exactly can fall either way
\* as floats; sorted() keeps them in dict order when they are equal floats)
RECURSIVE sorted_orders(_, _)
sorted_orders(pairs, k) ==
    IF k = 0 THEN {<<>>}
    ELSE UNION {
            {insert_at(seq, pos, pairs[k]) :
                pos \in {q \in 0..Len(seq) :
                            /\ q >= 1 => seq[q][2] <= pairs[k][2]
                            /\ q < Len(seq) => pairs[k][2] <= seq[q + 1][2]}} :
            seq \in sorted_orders(pairs, k - 1)}

\* zeroed with neither remainder ever tested equal to 0 on a tie
zeroed_never_both(debt, credit) ==
    IF debt < credit THEN {"debt"}
    ELSE IF credit < debt THEN {"credit"}
    ELSE {"none"}

\* which of debt - amount and credit - amount is 0.0 after amount =
\* min(debt, credit): the smaller one; on an exact tie the floats can be equal
\* (both) or differ by dust either way
zeroed(debt, credit) ==
    IF debt < credit THEN {"debt"}
    ELSE IF credit < debt THEN {"credit"}
    ELSE {"debt", "credit", "both"}

InitSettle ==
    /\ pc = "settle_call"
    /\ participants \in SettleLists
    /\ debtors = <<>> /\ creditors = <<>>
    /\ i = 0 /\ j = 0 /\ transactions = <<>>
    /\ name = <<>> /\ existing_names = <<>> /\ result = Idle /\ results = <<>>
    /\ shares = Idle

\* lines 69-80: the sums, the two dicts (a division by a zero total_weight
\* raises ZeroDivisionError as soon as there is a participant), the sorted lists
SettleStart ==
    /\ pc = "settle_call"
    /\ IF participants # <<>> /\ total_weight(participants) = 0
       THEN /\ pc' = "settle_raised"
            /\ UNCHANGED <<debtors, creditors>>
       ELSE /\ pc' = "settle_loop"
            /\ \E sgn \in float_signs(participants) :
                  LET owing == list_side(participants, sgn, 0 - 1)
                      owed == list_side(participants, sgn, 1)
                  IN  /\ debtors' \in sorted_orders(owing, Len(owing))
                      /\ creditors' \in sorted_orders(owed, Len(owed))
    /\ i' = 0 /\ j' = 0 /\ transactions' = <<>>
    /\ UNCHANGED <<participants, name, existing_names, result, results, shares>>

\* lines 81-94: one pass of the while loop
SettleStep ==
    /\ pc = "settle_loop"
    /\ i < Len(debtors) /\ j < Len(creditors)
    /\ LET debtor == debtors[i + 1][1]
           debt == debtors[i + 1][2]
           creditor == creditors[j + 1][1]
           credit == creditors[j + 1][2]
           amount == Min({debt, credit})
       IN  /\ \E rounded \in round2(amount, total_weight(participants)) :
                 transactions' = Append(transactions,
                     [From |-> debtor, To |-> creditor, Amount |-> rounded])
           /\ debtors' = [debtors EXCEPT ![i + 1] = <<debtor, debt - amount>>]
           /\ creditors' = [creditors EXCEPT ![j + 1] = <<creditor, credit - amount>>]
           /\ \E zero \in zeroed(debt, credit) :
                 /\ i' = IF zero \in {"debt", "both"} THEN i + 1 ELSE i
                 /\ j' = IF zero \in {"credit", "both"} THEN j + 1 ELSE j
    /\ UNCHANGED <<pc, participants, name, existing_names, result, results, shares>>

\* line 96: the loop condition fails, the transactions are returned
SettleReturn ==
    /\ pc = "settle_loop"
    /\ ~(i < Len(debtors) /\ j < Len(creditors))
    /\ pc' = "settle_done"
    /\ UNCHANGED <<participants, name, existing_names, result, results, debtors,
                   creditors, i, j, transactions, shares>>

NextSettle == SettleStart \/ SettleStep \/ SettleReturn

SpecSettle == InitSettle /\ [][NextSettle]_vars

\* ------------------------------------------------------- compute_fair_shares
\* normalised_share with the sum divided by the number of participants
normalised_share_per_head(ps) ==
    IF total_weight(ps) > 0 THEN <<total_spendings(ps), Len(ps)>> ELSE <<0, 1>>

\* normalised_share = total_spendings / total_weight if total_weight > 0 else 0.0,
\* exact, as <<numerator, denominator>>
normalised_share(ps) ==
    IF total_weight(ps) > 0 THEN <<total_spendings(ps), total_weight(ps)>> ELSE <<0, 1>>

\* the list comprehension: every way the entries can round
RECURSIVE fair_share_lists(_, _)
fair_share_lists(ps, k) ==
    IF k = 0 THEN {<<>>}
    ELSE {Append(shorter, [Name |-> ps[k].name, Weight |-> ps[k].weight, FairShare |-> r]) :
            shorter \in fair_share_lists(ps, k - 1),
            r \in round2(normalised_share(ps)[1] * ps[k].weight, normalised_share(ps)[2])}

InitShares ==
    /\ pc = "shares_call"
    /\ participants \in SettleLists
    /\ shares = Idle
    /\ debtors = <<>> /\ creditors = <<>>
    /\ i = 0 /\ j = 0 /\ transactions = <<>>
    /\ name = <<>> /\ existing_names = <<>> /\ result = Idle /\ results = <<>>

\* return total_spendings, normalised_share, fair_shares
ComputeFairShares ==
    /\ pc = "shares_call"
    /\ \E fair_shares \in fair_share_lists(participants, Len(participants)) :
          shares' = [total_spendings |-> total_spendings(participants),
                     normalised_share |-> normalised_share(participants),
                     fair_shares |-> fair_shares]
    /\ pc' = "shares_done"
    /\ UNCHANGED <<participants, name, existing_names, result, results, debtors,
                   creditors, i, j, transactions>>

NextShares == ComputeFairShares

SpecShares == InitShares /\ [][NextShares]_vars

\* ---------------------------------------------------------------- claims
\* equality of two names under case-insensitive, whitespace-trimmed comparison
SameName(a, b) == LowerAll(strip(a)) = LowerAll(strip(b))

\* C1: the name generate_unique_name returns equals no name of existing_names
\* under case-insensitive comparison after trimming whitespace.
C1_NoCollision ==
    pc = "gen_done" =>
        \A k \in 1..Len(existing_names) : ~SameName(result, existing_names[k])

\* where a trailing " (digits)" starts in t, the digits being any non-empty run
NumberedSuffixStarts(t) ==
    {p \in 0..(Len(t) - 4) :
        /\ t[p + 1] = SP /\ t[p + 2] = LP /\ t[Len(t)] = RP
        /\ \A x \in (p + 3)..(Len(t) - 1) : IsDigit(t[x])}

\* the starts among them whose digits denote a positive integer
PositiveSuffixStarts(t) ==
    {p \in NumberedSuffixStarts(t) : int(SubSeq(t, p + 3, Len(t) - 1)) >= 1}

\* C6 as stated: generate_unique_name(x, []) is trim(x) with one trailing " (k)",
\* k a positive integer, removed if present; any other trailing suffix, such as
\* " (0)", stays and trim(x) is returned unchanged.
C6_PositiveSuffixOnly ==
    (pc = "gen_done" /\ existing_names = <<>>) =>
        LET t == strip(name)
        IN  result = IF PositiveSuffixStarts(t) = {} THEN t
                     ELSE SubSeq(t, 1, Min(PositiveSuffixStarts(t)))

\* C6 amended: generate_unique_name(x, []) is trim(x) when trim(x) holds a line
\* feed or does not end in " (d)" with d a non-empty run of decimal digits ("0"
\* and leading zeros included); otherwise it is trim(x) with that one suffix
\* removed and the rest trimmed again.
C6_DigitSuffixStripped ==
    (pc = "gen_done" /\ existing_names = <<>>) =>
        LET t == strip(name)
        IN  result = IF (\E x \in 1..Len(t) : t[x] = NL) \/ NumberedSuffixStarts(t) = {}
                     THEN t
                     ELSE strip(SubSeq(t, 1, Min(NumberedSuffixStarts(t))))

\* C6 witness: with nothing recorded, a typed "a (0)" came back as "a"
C6_Witness ==
    /\ pc = "gen_done" /\ existing_names = <<>>
    /\ strip(name) = <<"a", SP, LP, "0", RP>>
    /\ result = <<"a">>

\* the slots the recorded names occupy for base: a bare match occupies slot 1, a
\* match of base (k), k a numeral of a positive integer, occupies slot k
OccupiedSlots(base, names) ==
    LET n == Len(base)
        trimmed == {strip(names[x]) : x \in 1..Len(names)}
        numeral(t) == SubSeq(t, n + 3, Len(t) - 1)
    IN  {1 : t \in {u \in trimmed : LowerAll(u) = LowerAll(base)}}
        \cup
        {int(numeral(t)) : t \in
            {u \in trimmed :
                /\ Len(u) >= n + 4
                /\ \A x \in 1..Len(numeral(u)) : IsDigit(numeral(u)[x])
                /\ int(numeral(u)) >= 1
                /\ LowerAll(u) = LowerAll(base \o <<SP, LP>> \o numeral(u) \o <<RP>>)}}

\* C7: generate_unique_name returns base unchanged when no trimmed recorded name
\* equals base or base (k), k a positive integer, case-insensitively; otherwise it
\* returns base (m), m one more than the highest occupied slot.
C7_NextFreeSlot ==
    pc = "gen_done" =>
        LET base == base_name(strip(name))
            slots == OccupiedSlots(base, existing_names)
        IN  result = IF slots = {} THEN base
                     ELSE base \o <<SP, LP>> \o str(Max(slots) + 1) \o <<RP>>

\* C7 witness: "A" against ["a", "A (2)"] gave "A (3)"
C7_Witness ==
    /\ pc = "gen_done"
    /\ name = <<"A">>
    /\ existing_names = << <<"a">>, <<"A", SP, LP, "2", RP>> >>
    /\ result = <<"A", SP, LP, "3", RP>>

\* C5: from an empty list, the n-th call with the same base name (any letter
\* case, any surrounding white space), each result appended before the next
\* call, returns base for n = 1 and base (n) after that.
C5_Sequence ==
    pc = "mono" =>
        \A k \in 1..Len(results) :
            LowerAll(results[k]) =
                LowerAll(IF k = 1 THEN strip(name)
                         ELSE strip(name) \o <<SP, LP>> \o str(k) \o <<RP>>)

\* C4: in every state reached from the empty session by add, edit, delete and
\* reset, no two participants have names equal under case-insensitive,
\* whitespace-trimmed comparison.
C4_UniqueNames ==
    pc = "session" =>
        \A k, l \in 1..Len(participants) :
            k # l => ~SameName(participants[k].name, participants[l].name)

Abs(x) == IF x < 0 THEN 0 - x ELSE x

unique_names(ps) == \A k, l \in 1..Len(ps) : k # l => ps[k].name # ps[l].name

\* the cents the transactions move away from (side = "From") or to (side = "To") n
RECURSIVE moved(_, _, _, _)
moved(txs, k, side, n) ==
    IF k > Len(txs) THEN 0
    ELSE (IF txs[k][side] = n THEN txs[k].Amount ELSE 0) + moved(txs, k + 1, side, n)

taking_part(txs, n) == Cardinality({k \in 1..Len(txs) : txs[k].From = n \/ txs[k].To = n})

\* C2 as stated: with unique names and total weight > 0, subtracting every
\* Amount from the From participant's balance and adding it to the To
\* participant's leaves every balance within half a cent per transaction the
\* participant takes part in of zero.
C2_SubtractFromPayer ==
    (pc = "settle_done" /\ unique_names(participants) /\ total_weight(participants) > 0) =>
        LET tw == total_weight(participants)
        IN  \A k \in 1..Len(participants) :
                LET n == participants[k].name
                    after == balance(participants, n) - tw * moved(transactions, 1, "From", n)
                                                      + tw * moved(transactions, 1, "To", n)
                IN  2 * Abs(after) <= tw * taking_part(transactions, n)

\* C2 amended: with unique names and total weight > 0, adding every Amount to the
\* From participant's balance and subtracting it from the To participant's
\* leaves every balance within half a cent per transaction the participant takes
\* part in of zero: what a debtor pays sums to the debt, what a creditor
\* receives sums to the credit, up to the rounding of the amounts.
C2_Settles ==
    (pc = "settle_done" /\ unique_names(participants) /\ total_weight(participants) > 0) =>
        LET tw == total_weight(participants)
        IN  \A k \in 1..Len(participants) :
                LET n == participants[k].name
                    after == balance(participants, n) + tw * moved(transactions, 1, "From", n)
                                                      - tw * moved(transactions, 1, "To", n)
                IN  2 * Abs(after) <= tw * taking_part(transactions, n)

\* C2 witness: a settled list of unique names in which one debtor paid two
\* creditors amounts that were rounded
C2_Witness ==
    /\ pc = "settle_done" /\ unique_names(participants)
    /\ Len(transactions) >= 2
    /\ transactions[1].From = transactions[2].From
    /\ transactions[1].To # transactions[2].To
    /\ \E k \in 1..Len(participants) :
          balance(participants, participants[k].name) % total_weight(participants) # 0

\* C3: compute_settlements raises nothing on a non-empty list whose weights are
\* all 0.
C3_NoErrorOnZeroWeights ==
    (participants # <<>> /\ \A k \in 1..Len(participants) : participants[k].weight = 0) =>
        pc # "settle_raised"

\* C9: along the output the From participants come in non-decreasing order of
\* original debt and the To participants in non-decreasing order of original
\* credit, each participant's transactions next to each other (two
\* transactions of one participant have the same participant right after the
\* earlier one, hence all the way between them), and the first transaction
\* pairs a smallest debtor with a smallest creditor.
C9_TwoPointerOrder ==
    pc = "settle_done" =>
        LET txs == transactions
            names == {participants[k].name : k \in 1..Len(participants)}
            credit == [n \in names |-> balance(participants, n)]
            debt == [n \in names |-> 0 - credit[n]]
        IN  /\ \A k, l \in 1..Len(txs) :
                  k < l => /\ debt[txs[k].From] <= debt[txs[l].From]
                           /\ credit[txs[k].To] <= credit[txs[l].To]
                           /\ txs[k].From = txs[l].From => txs[k + 1].From = txs[k].From
                           /\ txs[k].To = txs[l].To => txs[k + 1].To = txs[k].To
            /\ txs # <<>> =>
                  /\ \A d \in 1..Len(debtors) : debt[txs[1].From] <= debt[debtors[d][1]]
                  /\ \A c \in 1..Len(creditors) : credit[txs[1].To] <= credit[creditors[c][1]]

\* C9 witness: three transactions returned, two debtors of different debts and
\* two creditors of different credits among them
C9_Witness ==
    /\ pc = "settle_done"
    /\ Len(transactions) = 3
    /\ balance(participants, transactions[1].From) > balance(participants, transactions[3].From)
    /\ balance(participants, transactions[1].To) < balance(participants, transactions[3].To)

\* C10: every pass of the greedy loop moves i or j on, the pointer moved being
\* the one whose remainder became 0, and neither moves back; so the loop ends,
\* having emitted at most d + c - 1 transactions, none of them from a
\* participant to itself, and none at all when a list is empty.
C10_LoopAdvances ==
    /\ [][SettleStep =>
            /\ i' >= i /\ j' >= j /\ i' + j' > i + j
            /\ i' > i => debtors'[i + 1][2] = 0
            /\ j' > j => creditors'[j + 1][2] = 0]_vars
    /\ [](pc \in {"settle_loop", "settle_done"} =>
            /\ i <= Len(debtors) /\ j <= Len(creditors)
            /\ Len(transactions) <= i + j
            /\ (transactions # <<>> => Len(transactions) <= Len(debtors) + Len(creditors) - 1)
            /\ \A k \in 1..Len(transactions) : transactions[k].From # transactions[k].To
            /\ (debtors = <<>> \/ creditors = <<>>) => transactions = <<>>)

\* C10 witness: two debtors and two creditors settled with three transactions
C10_Witness ==
    /\ pc = "settle_done"
    /\ Len(debtors) = 2 /\ Len(creditors) = 2
    /\ Len(transactions) = 3

RECURSIVE sum_fair_shares(_, _)
sum_fair_shares(fs, k) ==
    IF k > Len(fs) THEN 0 ELSE fs[k].FairShare + sum_fair_shares(fs, k + 1)

\* C8: with non-negative weights and total weight > 0, the rounded fair shares of
\* n participants sum to within n cents (n * 0.01) of the total spend returned.
C8_Conservation ==
    (pc = "shares_done" /\ total_weight(participants) > 0) =>
        Abs(sum_fair_shares(shares.fair_shares, 1) - shares.total_spendings)
            <= Len(participants)

\* C8 witness: three weighted participants whose rounded shares do not sum to
\* the total
C8_Witness ==
    /\ pc = "shares_done" /\ total_weight(participants) > 0
    /\ Len(participants) = 3
    /\ \E k \in 1..3 : participants[k].weight = 2
    /\ sum_fair_shares(shares.fair_shares, 1) # shares.total_spendings

====
